---- MODULE Spec2Model ----
(***************************************************************************)
(* A model of oapi_builder: the node classes of models.py (construction,   *)
(* flattening with to_dict, the response upsert of OperationObject, the    *)
(* property setters) and the coercion function validate of fields.py.      *)
(*                                                                         *)
(* Python values are records of one shape, [k, s, n, d]:                   *)
(*   k = "none" | "bool" | "int" | "str"   a scalar (payload in s or n)    *)
(*   k = "ref"    a reference to a mutable container, n its heap address   *)
(*   k = "map"    a dict built by the call that returned it, held in d     *)
(*   k = "list"   a list built by the call that stored it, held in d       *)
(*   k = "obj"    an instance of the class named in s: pool[n]             *)
(*   k = "attr"   a descriptor of fields.py, of the class named in s       *)
(* A dict is the sequence of its <<key, value>> items in insertion order,  *)
(* a list the sequence of its <<position, element>> items;                 *)
(* keys are strings, written as sequences of one-character strings so that *)
(* str(), re.sub() and string comparison are computed, not assumed.        *)
(***************************************************************************)
EXTENDS Integers, Sequences, FiniteSets, TLC

VARIABLES
    heap,       \* address -> contents of a mutable container (dict items or list elements)
    pool,       \* the instances the caller holds, each a class name and a dict of attributes
    responses,  \* OperationObject._responses
    node,       \* the node under construction and flattening (SpecNode)
    err,        \* the exception the last call raised, "" when none
    out,        \* what the last to_dict() or validate() call returned
    last,       \* the last call made: its name, its arguments, its number
    alias_map   \* class name -> the _alias_map the class holds, None when it defines none

vars == <<heap, pool, responses, node, err, out, last, alias_map>>

-----------------------------------------------------------------------------
(* Strings *)

\* The characters in use, in code-point order (Python compares str by code point).
Alphabet ==
    <<"-", "/", "0", "1", "2", "3", "4", "5", "6", "7", "8", "9",
      "A", "B", "C", "D", "E", "F", "G", "H", "I", "J", "K", "L", "M",
      "N", "O", "P", "Q", "R", "S", "T", "U", "V", "W", "X", "Y", "Z", "_",
      "a", "b", "c", "d", "e", "f", "g", "h", "i", "j", "k", "l", "m",
      "n", "o", "p", "q", "r", "s", "t", "u", "v", "w", "x", "y", "z">>

\* ord(c), as the place of c in Alphabet
OrdTable == [c \in {Alphabet[i] : i \in 1..Len(Alphabet)} |->
                CHOOSE i \in 1..Len(Alphabet) : Alphabet[i] = c]

Ord(c) == OrdTable[c]

IsLower(c) == Ord(c) >= Ord("a") /\ Ord(c) <= Ord("z")

Upper(c) == IF IsLower(c) THEN Alphabet[Ord(c) - Ord("a") + Ord("A")] ELSE c

\* a < b for str: the first differing character decides, a proper prefix is smaller.
RECURSIVE StrLess(_, _)
StrLess(a, b) ==
    IF b = <<>> THEN FALSE
    ELSE IF a = <<>> THEN TRUE
    ELSE IF Head(a) # Head(b) THEN Ord(Head(a)) < Ord(Head(b))
    ELSE StrLess(Tail(a), Tail(b))

DigitChar(dgt) == Alphabet[Ord("0") + dgt]

RECURSIVE NatToStr(_)
NatToStr(n) ==
    IF n < 10 THEN <<DigitChar(n)>>
    ELSE Append(NatToStr(n \div 10), DigitChar(n % 10))

\* str(i) of an int: its decimal digits, "-" first when negative.
IntToStr(i) == IF i < 0 THEN <<"-">> \o NatToStr(0 - i) ELSE NatToStr(i)

\* re.sub(r'_([a-z])', lambda x: x.group(1).upper(), str_obj)
RECURSIVE snake_to_camelback(_)
snake_to_camelback(str_obj) ==
    IF Len(str_obj) < 2 THEN str_obj
    ELSE IF str_obj[1] = "_" /\ IsLower(str_obj[2])
         THEN <<Upper(str_obj[2])>> \o snake_to_camelback(Tail(Tail(str_obj)))
         ELSE <<str_obj[1]>> \o snake_to_camelback(Tail(str_obj))

\* Attribute names and output keys.
N_allow_empty_value == <<"a", "l", "l", "o", "w", "_", "e", "m", "p", "t", "y", "_", "v", "a", "l", "u", "e">>
N_deprecated == <<"d", "e", "p", "r", "e", "c", "a", "t", "e", "d">>
N_description == <<"d", "e", "s", "c", "r", "i", "p", "t", "i", "o", "n">>
N_name == <<"n", "a", "m", "e">>
N_parameter_in == <<"p", "a", "r", "a", "m", "e", "t", "e", "r", "_", "i", "n">>
N_required == <<"r", "e", "q", "u", "i", "r", "e", "d">>
N_schema == <<"s", "c", "h", "e", "m", "a">>
N_content_type == <<"c", "o", "n", "t", "e", "n", "t", "_", "t", "y", "p", "e">>
N_example == <<"e", "x", "a", "m", "p", "l", "e">>
N_examples == <<"e", "x", "a", "m", "p", "l", "e", "s">>
N_default == <<"d", "e", "f", "a", "u", "l", "t">>
N_enum == <<"e", "n", "u", "m">>
N_url == <<"u", "r", "l">>
N_variables == <<"v", "a", "r", "i", "a", "b", "l", "e", "s">>
N_content == <<"c", "o", "n", "t", "e", "n", "t">>
N_operation_id == <<"o", "p", "e", "r", "a", "t", "i", "o", "n", "_", "i", "d">>
N_operation_ref == <<"o", "p", "e", "r", "a", "t", "i", "o", "n", "_", "r", "e", "f">>
N_parameters == <<"p", "a", "r", "a", "m", "e", "t", "e", "r", "s">>
N_request_body == <<"r", "e", "q", "u", "e", "s", "t", "_", "b", "o", "d", "y">>
N_server == <<"s", "e", "r", "v", "e", "r">>
N_headers == <<"h", "e", "a", "d", "e", "r", "s">>
N_links == <<"l", "i", "n", "k", "s">>
N_status_code == <<"s", "t", "a", "t", "u", "s", "_", "c", "o", "d", "e">>
N_tags == <<"t", "a", "g", "s">>
N_authorization_url == <<"a", "u", "t", "h", "o", "r", "i", "z", "a", "t", "i", "o", "n", "_", "u", "r", "l">>
N_refresh_url == <<"r", "e", "f", "r", "e", "s", "h", "_", "u", "r", "l">>
N_scopes == <<"s", "c", "o", "p", "e", "s">>
N_token_url == <<"t", "o", "k", "e", "n", "_", "u", "r", "l">>
N_authorization_code == <<"a", "u", "t", "h", "o", "r", "i", "z", "a", "t", "i", "o", "n", "_", "c", "o", "d", "e">>
N_client_credentials == <<"c", "l", "i", "e", "n", "t", "_", "c", "r", "e", "d", "e", "n", "t", "i", "a", "l", "s">>
N_implicit == <<"i", "m", "p", "l", "i", "c", "i", "t">>
N_password == <<"p", "a", "s", "s", "w", "o", "r", "d">>
N_bearer_format == <<"b", "e", "a", "r", "e", "r", "_", "f", "o", "r", "m", "a", "t">>
N_flows == <<"f", "l", "o", "w", "s">>
N_key_in == <<"k", "e", "y", "_", "i", "n">>
N_open_id_connect_url == <<"o", "p", "e", "n", "_", "i", "d", "_", "c", "o", "n", "n", "e", "c", "t", "_", "u", "r", "l">>
N_scheme == <<"s", "c", "h", "e", "m", "e">>
N_type == <<"t", "y", "p", "e">>
N_responses == <<"r", "e", "s", "p", "o", "n", "s", "e", "s">>
N_security == <<"s", "e", "c", "u", "r", "i", "t", "y">>
N_summary == <<"s", "u", "m", "m", "a", "r", "y">>
N_in == <<"i", "n">>

-----------------------------------------------------------------------------
(* Python values *)

PyNone == [k |-> "none", s |-> "", n |-> 0, d |-> <<>>]
PyBool(b) == [k |-> "bool", s |-> "", n |-> IF b THEN 1 ELSE 0, d |-> <<>>]
PyInt(i) == [k |-> "int", s |-> "", n |-> i, d |-> <<>>]
PyStr(x) == [k |-> "str", s |-> x, n |-> 0, d |-> <<>>]
PyRef(a) == [k |-> "ref", s |-> "", n |-> a, d |-> <<>>]
PyMap(items) == [k |-> "map", s |-> "", n |-> 0, d |-> items]
\* an instance of cls the caller holds: pool[i]
PyObj(cls, i) == [k |-> "obj", s |-> cls, n |-> i, d |-> <<>>]
\* a list built by the call that stored it: its <<position, element>> items
PyList(items) == [k |-> "list", s |-> "", n |-> 0, d |-> items]
\* a descriptor given as a value: an instance of the class named
\* (OAPIObjectAttr or its subclass OAPIObjectListAttr)
PyAttr(cls) == [k |-> "attr", s |-> cls, n |-> 0, d |-> <<>>]
\* a class object (a type), by its __name__
PyType(name) == [k |-> "type", s |-> name, n |-> 0, d |-> <<>>]
\* a keyword argument the caller does not pass
Omitted == [k |-> "omitted", s |-> "", n |-> 0, d |-> <<>>]
\* no node: a constructor that raised returns nothing
NoNode == [cls |-> "", attrs |-> <<>>]

\* bool(v): None, False, 0, '' and empty containers are falsy.
Truthy(v, h) ==
    CASE v.k = "none" -> FALSE
      [] v.k = "bool" -> v.n = 1
      [] v.k = "int" -> v.n # 0
      [] v.k = "str" -> v.s # ""
      [] v.k = "ref" -> Len(h[v.n]) > 0
      [] v.k \in {"map", "list"} -> Len(v.d) > 0
      [] OTHER -> TRUE

\* F(v) with v computed once: a local variable of the code.
With(v, F(_)) == CHOOSE result \in {F(x) : x \in {v}} : TRUE

-----------------------------------------------------------------------------
(* dict *)

DictKeys(dct) == {dct[i][1] : i \in 1..Len(dct)}

DictHas(dct, key) == key \in DictKeys(dct)

DictGet(dct, key) == dct[CHOOSE i \in 1..Len(dct) : dct[i][1] = key][2]

\* dct[key] = val: an existing key keeps its place, a new key goes last.
DictSet(dct, key, val) ==
    IF DictHas(dct, key)
    THEN [i \in 1..Len(dct) |-> IF dct[i][1] = key THEN <<key, val>> ELSE dct[i]]
    ELSE Append(dct, <<key, val>>)

\* dct.pop(key, ...): the dict without the key.
DictPop(dct, key) == SelectSeq(dct, LAMBDA item : item[1] # key)

\* {k: v for k, v in items}: entries are set one after the other.
RECURSIVE DictFromItems(_)
DictFromItems(items) ==
    IF items = <<>> THEN <<>>
    ELSE LET rest == DictFromItems(SubSeq(items, 1, Len(items) - 1))
             item == items[Len(items)]
         IN DictSet(rest, item[1], item[2])

\* a | b: a copy of a updated with b's entries, so b's value wins on a shared key.
RECURSIVE DictUnion(_, _)
DictUnion(a, b) ==
    IF b = <<>> THEN a
    ELSE DictUnion(DictSet(a, Head(b)[1], Head(b)[2]), Tail(b))

\* Insertion of an item into items already sorted by key.
RECURSIVE InsertByKey(_, _)
InsertByKey(item, sorted) ==
    IF sorted = <<>> THEN <<item>>
    ELSE IF StrLess(item[1], Head(sorted)[1]) THEN <<item>> \o sorted
    ELSE <<Head(sorted)>> \o InsertByKey(item, Tail(sorted))

\* sorted(dct.items()): keys are unique, so the str key alone decides the order.
RECURSIVE SortedItems(_)
SortedItems(dct) ==
    IF dct = <<>> THEN <<>>
    ELSE InsertByKey(dct[Len(dct)], SortedItems(SubSeq(dct, 1, Len(dct) - 1)))

-----------------------------------------------------------------------------
(* http.HTTPStatus, in enumeration order: <<value, phrase>> *)

HTTPStatus == <<
    <<100, "Continue">>, <<101, "Switching Protocols">>, <<102, "Processing">>,
    <<103, "Early Hints">>, <<200, "OK">>, <<201, "Created">>, <<202, "Accepted">>,
    <<203, "Non-Authoritative Information">>, <<204, "No Content">>, <<205, "Reset Content">>,
    <<206, "Partial Content">>, <<207, "Multi-Status">>, <<208, "Already Reported">>,
    <<226, "IM Used">>, <<300, "Multiple Choices">>, <<301, "Moved Permanently">>,
    <<302, "Found">>, <<303, "See Other">>, <<304, "Not Modified">>, <<305, "Use Proxy">>,
    <<307, "Temporary Redirect">>, <<308, "Permanent Redirect">>, <<400, "Bad Request">>,
    <<401, "Unauthorized">>, <<402, "Payment Required">>, <<403, "Forbidden">>,
    <<404, "Not Found">>, <<405, "Method Not Allowed">>, <<406, "Not Acceptable">>,
    <<407, "Proxy Authentication Required">>, <<408, "Request Timeout">>, <<409, "Conflict">>,
    <<410, "Gone">>, <<411, "Length Required">>, <<412, "Precondition Failed">>,
    <<413, "Request Entity Too Large">>, <<414, "Request-URI Too Long">>,
    <<415, "Unsupported Media Type">>, <<416, "Requested Range Not Satisfiable">>,
    <<417, "Expectation Failed">>, <<418, "I'm a Teapot">>, <<421, "Misdirected Request">>,
    <<422, "Unprocessable Entity">>, <<423, "Locked">>, <<424, "Failed Dependency">>,
    <<425, "Too Early">>, <<426, "Upgrade Required">>, <<428, "Precondition Required">>,
    <<429, "Too Many Requests">>, <<431, "Request Header Fields Too Large">>,
    <<451, "Unavailable For Legal Reasons">>, <<500, "Internal Server Error">>,
    <<501, "Not Implemented">>, <<502, "Bad Gateway">>, <<503, "Service Unavailable">>,
    <<504, "Gateway Timeout">>, <<505, "HTTP Version Not Supported">>,
    <<506, "Variant Also Negotiates">>, <<507, "Insufficient Storage">>,
    <<508, "Loop Detected">>, <<510, "Not Extended">>,
    <<511, "Network Authentication Required">>
>>

IsHTTPStatus(code) == \E i \in 1..Len(HTTPStatus) : HTTPStatus[i][1] = code

Phrase(code) == HTTPStatus[CHOOSE i \in 1..Len(HTTPStatus) : HTTPStatus[i][1] = code][2]

-----------------------------------------------------------------------------
(* The node classes of models.py *)

\* The attributes of an instance that dir() lists, are not callable and do not
\* start with "_": dataclass fields and properties, in the order the class
\* declares them (own fields, own properties, then the mixins' properties).
PublicAttrs(cls) ==
    CASE cls = "ParameterObject" ->
            <<N_name, N_schema, N_parameter_in, N_description, N_required, N_deprecated,
              N_allow_empty_value>>
      [] cls = "ContentObject" -> <<N_schema, N_example, N_examples, N_content_type>>
      [] cls = "ServerVariableObject" -> <<N_default, N_description, N_enum>>
      [] cls = "ServerObject" -> <<N_url, N_description, N_variables>>
      [] cls = "RequestBodyObject" -> <<N_description, N_required, N_content>>
      [] cls = "LinkObject" ->
            <<N_operation_id, N_operation_ref, N_description, N_request_body, N_server,
              N_parameters>>
      [] cls = "ResponseObject" ->
            <<N_status_code, N_description, N_tags, N_links, N_content, N_headers>>
      [] cls = "OAuthFlowObject" ->
            <<N_scopes, N_authorization_url, N_refresh_url, N_token_url, N_content>>
      [] cls = "OAuthFlowsObject" ->
            <<N_authorization_code, N_client_credentials, N_implicit, N_password, N_content>>
      [] cls = "SecuritySchemeObject" ->
            <<N_type, N_description, N_bearer_format, N_scheme, N_open_id_connect_url, N_name,
              N_flows, N_key_in, N_parameters>>
      [] cls = "OperationObject" ->
            <<N_description, N_summary, N_tags, N_security, N_deprecated, N_request_body,
              N_responses, N_parameters>>

\* Insertion of a name into names already sorted.
RECURSIVE InsertName(_, _)
InsertName(name, sorted) ==
    IF sorted = <<>> THEN <<name>>
    ELSE IF StrLess(name, Head(sorted)) THEN <<name>> \o sorted
    ELSE <<Head(sorted)>> \o InsertName(name, Tail(sorted))

RECURSIVE SortNames(_)
SortNames(names) ==
    IF names = <<>> THEN <<>>
    ELSE InsertName(names[Len(names)], SortNames(SubSeq(names, 1, Len(names) - 1)))

Classes ==
    {"ParameterObject", "ContentObject", "ServerVariableObject", "ServerObject",
     "RequestBodyObject", "LinkObject", "ResponseObject", "OAuthFlowObject",
     "OAuthFlowsObject", "SecuritySchemeObject", "OperationObject"}

DirTable == [cls \in Classes |-> SortNames(PublicAttrs(cls))]

\* (mutant) the names in the order the class declares them.
Dir_DeclarationOrder(cls) == PublicAttrs(cls)

\* dir(self), cut to the names to_dict keeps: dir() returns names sorted.
Dir(cls) == DirTable[cls]

\* _is_camelback: True on BaseObject, False on ResponseObject.
IsCamelback(cls) == cls # "ResponseObject"

\* No class of models.py defines an _alias_map.
NoAliasMaps == [cls \in Classes |-> PyNone]

\* getattr(self, k); a property returns the container its private field holds.
GetAttr(self, k) == DictGet(self.attrs, k)

\* (mutant) no attribute is left out for being falsy.
RECURSIVE BaseItems_KeepFalsy(_, _, _)
BaseItems_KeepFalsy(self, names, h) ==
    IF names = <<>> THEN <<>>
    ELSE <<<<IF IsCamelback(self.cls) THEN snake_to_camelback(Head(names)) ELSE Head(names),
             GetAttr(self, Head(names))>>>> \o BaseItems_KeepFalsy(self, Tail(names), h)

\* The items of BaseObject.to_dict's comprehension for the names not yet visited.
RECURSIVE BaseItems(_, _, _)
BaseItems(self, names, h) ==
    IF names = <<>> THEN <<>>
    ELSE LET k == Head(names)
             rest == BaseItems(self, Tail(names), h)
         IN IF Truthy(GetAttr(self, k), h)
            THEN <<<<IF IsCamelback(self.cls) THEN snake_to_camelback(k) ELSE k,
                     GetAttr(self, k)>>>> \o rest
            ELSE rest

\* BaseObject.to_dict: a new dict of the truthy public attributes; a container
\* among them is the attribute's own container, not a copy.
BaseToDict(self, h) == DictFromItems(BaseItems(self, Dir(self.cls), h))

\* ResponseObject.to_dict
ResponseToDict(self, h) == DictPop(BaseToDict(self, h), N_status_code)

-----------------------------------------------------------------------------
(* Bounds and input domains *)

MaxObjs == 2        \* ResponseObject instances the caller creates
MaxList == 2        \* length of the list given to upsert_responses

\* status codes tried: HTTP statuses, and integers that are none (shorter and
\* longer in decimal than an HTTP status)
Codes == {99, 200, 404}
Descriptions == {PyNone, PyStr("X")}
HeaderNames == {<<"A">>}
HeaderDescriptions == {PyStr("d1"), PyStr("d2")}

\* Sequences over S of length at most n.
SeqsUpTo(S, n) == UNION {[1..m -> S] : m \in 0..n}

-----------------------------------------------------------------------------
(* ResponseObject and OperationObject *)

\* ResponseObject(status_code, description): the instance after __init__ and
\* __post_init__, its four containers fresh at addresses a+1..a+4.
NewResponseObject(status_code, description, a) ==
    [cls |-> "ResponseObject",
     attrs |-> <<
        <<N_headers, PyRef(a + 1)>>,
        <<N_content, PyRef(a + 2)>>,
        <<N_status_code, PyInt(status_code)>>,
        <<N_description,
          IF ~Truthy(description, <<>>) THEN PyStr(Phrase(status_code)) ELSE description>>,
        <<N_tags, PyRef(a + 3)>>,
        <<N_links, PyRef(a + 4)>> >>]

\* HTTPStatus(status_code) raises ValueError for an integer that is no status:
\* the construction then yields no object.
ResponseObjectRaises(status_code, description) ==
    ~Truthy(description, <<>>) /\ ~IsHTTPStatus(status_code)

\* OperationObject(description="op"): its containers (tags, security,
\* _parameters, _request_body) are at addresses 1..4, _responses is the
\* variable responses.
TheOperation(current) ==
    [cls |-> "OperationObject",
     attrs |-> <<
        <<N_parameters, PyRef(1)>>,
        <<N_description, PyStr("op")>>,
        <<N_summary, PyNone>>,
        <<N_tags, PyRef(2)>>,
        <<N_security, PyRef(3)>>,
        <<N_deprecated, PyBool(FALSE)>>,
        <<N_request_body, PyRef(4)>>,
        <<N_responses, PyMap(current)>> >>]

OperationHeap == <<<<>>, <<>>, <<>>, <<>>>>

NewResponse(status_code, description) ==
    /\ Len(pool) < MaxObjs
    /\ ~ResponseObjectRaises(status_code, description)
    /\ pool' = Append(pool, NewResponseObject(status_code, description, Len(heap)))
    /\ heap' = heap \o <<<<>>, <<>>, <<>>, <<>>>>
    /\ last' = [op |-> "ResponseObject", args |-> <<Len(pool) + 1>>, n |-> 0]
    /\ UNCHANGED <<responses, node, err, out, alias_map>>

\* HeaderMixin.upsert_headers: self._headers[name] = dict(description=..., schema=...)
HeadersAfterUpsert(headers, name, description, schema) ==
    DictSet(headers, name,
            PyMap(<< <<N_description, description>>, <<N_schema, schema>> >>))

UpsertHeaders(i, name, description, schema) ==
    /\ i \in 1..Len(pool)
    /\ heap' = [heap EXCEPT ![GetAttr(pool[i], N_headers).n] =
                    HeadersAfterUpsert(@, name, description, schema)]
    /\ last' = [op |-> "upsert_headers", args |-> <<i>>, n |-> 0]
    /\ UNCHANGED <<pool, responses, node, err, out, alias_map>>

\* The dict comprehension of upsert_responses: str(r.status_code) -> r.to_dict().
RECURSIVE ResponseItems(_, _)
ResponseItems(rs, h) ==
    IF rs = <<>> THEN <<>>
    ELSE <<<<IntToStr(GetAttr(Head(rs), N_status_code).n),
             PyMap(ResponseToDict(Head(rs), h))>>>> \o ResponseItems(Tail(rs), h)

\* (mutant) the operands of "|" swapped: the new entries win.
MergedResponses_NewWins(rs, current, h) ==
    DictUnion(current, DictFromItems(ResponseItems(rs, h)))

\* The dict the "|" of upsert_responses builds: the new entries updated with
\* self._responses.
MergedResponses(rs, current, h) == DictUnion(DictFromItems(ResponseItems(rs, h)), current)

\* (mutant) the merged dict stored without sorting.
ResponsesAfterUpsert_Unsorted(rs, current, h) == MergedResponses(rs, current, h)

\* OperationObject.upsert_responses: self._responses after the call.
ResponsesAfterUpsert(rs, current, h) == SortedItems(MergedResponses(rs, current, h))

\* The ResponseObject instances a list of pool indices names.
Picked(list) == [j \in 1..Len(list) |-> pool[list[j]]]

UpsertResponses(list) ==
    /\ responses' = ResponsesAfterUpsert(Picked(list), responses, heap)
    /\ last' = [op |-> "upsert_responses", args |-> list, n |-> 0]
    /\ UNCHANGED <<heap, pool, node, err, out, alias_map>>

-----------------------------------------------------------------------------
(* Spec: a caller that creates responses, adds headers to them and upserts  *)
(* them into one operation, in any order.                                   *)

Init ==
    /\ heap = OperationHeap
    /\ pool = <<>>
    /\ responses = <<>>
    /\ node = NoNode
    /\ err = ""
    /\ out = <<>>
    /\ last = [op |-> "init", args |-> <<>>, n |-> 0]
    /\ alias_map = NoAliasMaps

Next ==
    \/ \E status_code \in Codes, description \in Descriptions :
          NewResponse(status_code, description)
    \/ \E i \in 1..Len(pool), name \in HeaderNames, description \in HeaderDescriptions :
          UpsertHeaders(i, name, description, PyStr("S"))
    \/ \E list \in SeqsUpTo(1..Len(pool), MaxList) : UpsertResponses(list)

Spec == Init /\ [][Next]_vars

-----------------------------------------------------------------------------
(* SpecUpsert: any sequence of upsert_responses calls on one operation, the *)
(* lists drawn from a fixed collection of responses.                        *)

\* The constructor arguments of the responses the caller holds.
CatalogueArgs ==
    << <<200, PyNone>>, <<200, PyStr("X")>>, <<404, PyNone>>, <<1000, PyStr("X")>> >>

InitUpsert ==
    /\ pool = [i \in 1..Len(CatalogueArgs) |->
                NewResponseObject(CatalogueArgs[i][1], CatalogueArgs[i][2],
                                  Len(OperationHeap) + 4 * (i - 1))]
    /\ heap = [a \in 1..(Len(OperationHeap) + 4 * Len(CatalogueArgs)) |-> <<>>]
    /\ responses = <<>>
    /\ node = NoNode
    /\ err = ""
    /\ out = <<>>
    /\ last = [op |-> "init", args |-> <<>>, n |-> 0]
    /\ alias_map = NoAliasMaps

NextUpsert == \E list \in SeqsUpTo(1..Len(pool), MaxList) : UpsertResponses(list)

SpecUpsert == InitUpsert /\ [][NextUpsert]_vars

-----------------------------------------------------------------------------
(* SpecAtomic: any sequence of upsert_responses calls on one operation, the *)
(* lists holding responses of the same collection and values that have no   *)
(* status_code.                                                              *)

\* The dict comprehension of upsert_responses, element by element: the dict
\* built when the list is exhausted, or AttributeError from r.status_code at
\* the first element that has no such attribute. Of the values drawn here
\* only a ResponseObject has one, so that every element keyed is flattened.
RECURSIVE Comprehension(_, _, _, _)
Comprehension(values, built, p, h) ==
    IF values = <<>> THEN [err |-> "", items |-> built]
    ELSE IF ~(Head(values).k = "obj" /\ Head(values).s = "ResponseObject")
    THEN [err |-> "AttributeError", items |-> built]
    ELSE Comprehension(Tail(values),
                       DictSet(built,
                               IntToStr(GetAttr(p[Head(values).n], N_status_code).n),
                               PyMap(ResponseToDict(p[Head(values).n], h))),
                       p, h)

\* (mutant) the entries keyed before the exception are merged and stored.
UpsertOutcome_StoresWhatWasKeyed(values, current, p, h) ==
    With(Comprehension(values, <<>>, p, h), LAMBDA made :
        [err |-> made.err, responses |-> SortedItems(DictUnion(made.items, current))])

\* OperationObject.upsert_responses on any list: the exception raised ("" when
\* none) and self._responses after the call. The assignment to self._responses
\* is the last statement, which an exception in the comprehension never reaches.
UpsertOutcome(values, current, p, h) ==
    With(Comprehension(values, <<>>, p, h), LAMBDA made :
        IF made.err # ""
        THEN [err |-> made.err, responses |-> current]
        ELSE [err |-> "", responses |-> SortedItems(DictUnion(made.items, current))])

\* A mapping the caller holds that is no ResponseObject: {'description': 'x'}.
RawResponse == PyRef(Len(OperationHeap) + 4 * Len(CatalogueArgs) + 1)

\* The values a list given to upsert_responses is made of.
ListElements ==
    {PyObj("ResponseObject", i) : i \in 1..Len(CatalogueArgs)} \cup {RawResponse}

UpsertResponsesOf(values) ==
    \E got \in {UpsertOutcome(values, responses, pool, heap)} :
        /\ err' = got.err
        /\ responses' = got.responses
        /\ last' = [op |-> "upsert_responses", args |-> values, n |-> 0]
        /\ UNCHANGED <<heap, pool, node, out, alias_map>>

InitAtomic ==
    /\ pool = [i \in 1..Len(CatalogueArgs) |->
                NewResponseObject(CatalogueArgs[i][1], CatalogueArgs[i][2],
                                  Len(OperationHeap) + 4 * (i - 1))]
    /\ heap = [a \in 1..(Len(OperationHeap) + 4 * Len(CatalogueArgs)) |-> <<>>]
                \o << << <<N_description, PyStr("x")>> >> >>
    /\ responses = <<>>
    /\ node = NoNode
    /\ err = ""
    /\ out = <<>>
    /\ last = [op |-> "init", args |-> <<>>, n |-> 0]
    /\ alias_map = NoAliasMaps

NextAtomic == \E values \in SeqsUpTo(ListElements, MaxList) : UpsertResponsesOf(values)

SpecAtomic == InitAtomic /\ [][NextAtomic]_vars

-----------------------------------------------------------------------------
(* Construction of the node classes *)

Chars_application_json ==
    <<"a", "p", "p", "l", "i", "c", "a", "t", "i", "o", "n", "/", "j", "s", "o", "n">>
Chars_text_plain == <<"t", "e", "x", "t", "/", "p", "l", "a", "i", "n">>

\* The characters of a content type (the same str, as a dict key).
Chars(str) ==
    CASE str = "application/json" -> Chars_application_json
      [] str = "text/plain" -> Chars_text_plain

\* _valid_content_types: the values of mimetypes.types_map, cut to those tried.
ValidContentTypes == {"application/json", "text/plain"}

\* The containers the caller holds before constructing a node.
CallerHeap == <<
    <<>>,                                                     \* 1: {}
    << <<<<"k">>, PyStr("v")>> >>,                            \* 2: {'k': 'v'}
    << <<<<"0">>, PyStr("t")>> >>,                            \* 3: ['t']
    << <<snake_to_camelback(N_authorization_url), PyStr("u")>>,
       <<snake_to_camelback(N_token_url), PyStr("t")>> >>,    \* 4: a flow with both urls
    << <<snake_to_camelback(N_authorization_url), PyStr("u")>> >>,  \* 5: authorizationUrl only
    << <<snake_to_camelback(N_token_url), PyStr("t")>> >> >>  \* 6: tokenUrl only

EmptyDict == PyRef(1)
SomeDict == PyRef(2)
SomeList == PyRef(3)
FlowBoth == PyRef(4)
FlowAuthOnly == PyRef(5)
FlowTokenOnly == PyRef(6)

\* field(default_factory=lambda: {}) or [...]: a container made per instance
Factory == [k |-> "factory", s |-> "", n |-> 0, d |-> <<>>]
\* a field without a default: the argument is required
Required == [k |-> "required", s |-> "", n |-> 0, d |-> <<>>]

\* The default each dataclass field declares. A field with init=False (the
\* mixins' containers, _variables, _request_body and _responses of an
\* operation) always takes it.
FieldDefault(cls, name) ==
    CASE cls = "ParameterObject" ->
            (CASE name = N_name -> Required
               [] name = N_parameter_in -> PyStr("path")
               [] name \in {N_deprecated, N_allow_empty_value} -> PyBool(FALSE)
               [] OTHER -> PyNone)
      [] cls = "ContentObject" ->
            (CASE name = N_schema -> PyStr("")
               [] name = N_content_type -> PyStr("application/json")
               [] OTHER -> PyNone)
      [] cls = "ServerVariableObject" ->
            (CASE name = N_default -> Required
               [] name = N_enum -> Factory
               [] OTHER -> PyNone)
      [] cls = "ServerObject" ->
            (CASE name = N_url -> Required
               [] name = N_variables -> Factory
               [] OTHER -> PyNone)
      [] cls = "RequestBodyObject" ->
            (CASE name = N_required -> PyBool(FALSE)
               [] name = N_content -> Factory
               [] OTHER -> PyNone)
      [] cls = "LinkObject" ->
            (CASE name \in {N_server, N_request_body, N_parameters} -> Factory
               [] OTHER -> PyNone)
      [] cls = "ResponseObject" ->
            (CASE name = N_status_code -> Required
               [] name = N_description -> PyNone
               [] OTHER -> Factory)
      [] cls = "OAuthFlowObject" ->
            (CASE name = N_scopes -> Required
               [] name = N_content -> Factory
               [] OTHER -> PyNone)
      [] cls = "OAuthFlowsObject" -> Factory
      [] cls = "SecuritySchemeObject" ->
            (CASE name = N_type -> Required
               [] name \in {N_flows, N_parameters} -> Factory
               [] OTHER -> PyNone)
      [] cls = "OperationObject" ->
            (CASE name = N_description -> Required
               [] name = N_summary -> PyNone
               [] name = N_deprecated -> PyBool(FALSE)
               [] OTHER -> Factory)

\* The attributes __init__ sets: each keyword argument given, the field's
\* default otherwise, a fresh container (at the next free address) for a
\* default_factory. A required argument left out stays Required (TypeError).
RECURSIVE InitAttrs(_, _, _, _)
InitAttrs(cls, names, kw, h) ==
    IF names = <<>> THEN [attrs |-> <<>>, heap |-> h]
    ELSE LET name == Head(names)
             given == IF DictHas(kw, name) THEN DictGet(kw, name) ELSE Omitted
             value == IF given # Omitted THEN given ELSE FieldDefault(cls, name)
             fresh == value = Factory
         IN With(InitAttrs(cls, Tail(names), kw, IF fresh THEN Append(h, <<>>) ELSE h),
                 LAMBDA rest :
                    [attrs |-> <<<<name, IF fresh THEN PyRef(Len(h) + 1) ELSE value>>>>
                                  \o rest.attrs,
                     heap |-> rest.heap])

IsStrIn(v, strs) == v.k = "str" /\ v.s \in strs

\* dct.get(key): the value, None when the key is missing.
DictGetOrNone(dct, key) == IF DictHas(dct, key) THEN DictGet(dct, key) ELSE PyNone

\* The flow dict lacks a truthy value under the camelCase key of name.
FlowLacks(flow, name, h) ==
    ~Truthy(DictGetOrNone(h[flow.n], snake_to_camelback(name)), h)

\* The exception __init__ and __post_init__ raise for these attributes, ""
\* when they raise none.
PostInitError(cls, attrs, h) ==
    LET a(name) == DictGet(attrs, name)
    IN CASE \E i \in 1..Len(attrs) : attrs[i][2] = Required -> "TypeError"
         [] cls = "ParameterObject" ->
              IF IsStrIn(a(N_parameter_in), {"query", "header", "path", "cookie"})
              THEN "" ELSE "AssertionError"
         [] cls = "ContentObject" ->
              IF ~IsStrIn(a(N_content_type), ValidContentTypes) THEN "AssertionError"
              ELSE IF a(N_schema).k \in {"str", "type"} THEN "" ELSE "AttributeError"
         [] cls = "ResponseObject" ->
              IF ~Truthy(a(N_description), h) /\ ~IsHTTPStatus(a(N_status_code).n)
              THEN "ValueError" ELSE ""
         [] cls = "OAuthFlowsObject" ->
              IF \/ /\ Truthy(a(N_authorization_code), h)
                    /\ \/ FlowLacks(a(N_authorization_code), N_authorization_url, h)
                       \/ FlowLacks(a(N_authorization_code), N_token_url, h)
                 \/ /\ Truthy(a(N_implicit), h)
                    /\ FlowLacks(a(N_implicit), N_authorization_url, h)
                 \/ /\ Truthy(a(N_client_credentials), h)
                    /\ FlowLacks(a(N_client_credentials), N_token_url, h)
                 \/ /\ Truthy(a(N_password), h)
                    /\ FlowLacks(a(N_password), N_token_url, h)
              THEN "AssertionError" ELSE ""
         [] cls = "SecuritySchemeObject" ->
              IF ~IsStrIn(a(N_type), {"apiKey", "http", "oauth2", "openIdConnect"})
              THEN "AssertionError"
              ELSE IF a(N_type).s = "apiKey"
              THEN IF /\ Truthy(a(N_name), h)
                      /\ IsStrIn(a(N_key_in), {"query", "header", "cookie"})
                   THEN "" ELSE "AssertionError"
              ELSE IF a(N_type).s = "http"
              THEN IF Truthy(a(N_scheme), h) THEN "" ELSE "AssertionError"
              ELSE IF a(N_type).s = "oath2"
              THEN IF Truthy(a(N_flows), h) THEN "" ELSE "AssertionError"
              ELSE IF a(N_type).s = "openIdConnect"
              THEN "AttributeError"     \* self.openIdConnectUrl is no attribute
              ELSE ""
         [] OTHER -> ""

\* The attributes once __post_init__ has run.
PostInit(cls, attrs, h) ==
    LET a(name) == DictGet(attrs, name)
    IN CASE cls = "ParameterObject" ->
              DictSet(attrs, N_required,
                      IF Truthy(a(N_required), h) THEN a(N_required)
                      ELSE PyBool(a(N_parameter_in) = PyStr("path")))
         [] cls = "ContentObject" ->
              DictSet(attrs, N_schema,
                      IF a(N_schema).k = "str" THEN a(N_schema) ELSE PyStr(a(N_schema).s))
         [] cls = "ResponseObject" ->
              DictSet(attrs, N_description,
                      IF ~Truthy(a(N_description), h)
                      THEN PyStr(Phrase(a(N_status_code).n)) ELSE a(N_description))
         [] OTHER -> attrs

-----------------------------------------------------------------------------
(* to_dict of every class *)

\* d[new] = d.pop(old)
DictRename(dct, old, new) == DictSet(DictPop(dct, old), new, DictGet(dct, old))

\* ParameterObject.to_dict
ParameterToDict(self, h) ==
    LET response == DictRename(BaseToDict(self, h), snake_to_camelback(N_parameter_in), N_in)
    IN IF Truthy(GetAttr(self, N_schema), h)
       THEN DictSet(response, N_schema, GetAttr(self, N_schema))
       ELSE response

\* ContentObject.to_dict: the other fields, under the content type as the key
ContentToDict(self, h) ==
    LET response == BaseToDict(self, h)
        key == snake_to_camelback(N_content_type)
    IN << <<Chars(DictGet(response, key).s), PyMap(DictPop(response, key))>> >>

\* OAuthFlowObject.to_dict: response.setdefault('scopes', {})
OAuthFlowToDict(self, h) ==
    LET response == BaseToDict(self, h)
    IN IF DictHas(response, N_scopes) THEN response
       ELSE DictSet(response, N_scopes, PyMap(<<>>))

\* SecuritySchemeObject.to_dict
SecuritySchemeToDict(self, h) ==
    LET response == BaseToDict(self, h)
    IN IF Truthy(GetAttr(self, N_key_in), h)
       THEN DictRename(response, snake_to_camelback(N_key_in), N_in)
       ELSE response

\* self.to_dict(), by the class of self
ToDict(self, h) ==
    CASE self.cls = "ParameterObject" -> ParameterToDict(self, h)
      [] self.cls = "ContentObject" -> ContentToDict(self, h)
      [] self.cls = "ResponseObject" -> ResponseToDict(self, h)
      [] self.cls = "OAuthFlowObject" -> OAuthFlowToDict(self, h)
      [] self.cls = "SecuritySchemeObject" -> SecuritySchemeToDict(self, h)
      [] OTHER -> BaseToDict(self, h)

\* (mutant) to_dict pops the attributes it renames from the instance itself, so
\* that they fall back to the defaults the class holds.
RECURSIVE AttrsReset(_, _, _)
AttrsReset(cls, attrs, names) ==
    IF names = <<>> THEN attrs
    ELSE AttrsReset(cls,
                    IF DictHas(attrs, Head(names))
                    THEN DictSet(attrs, Head(names), FieldDefault(cls, Head(names)))
                    ELSE attrs,
                    Tail(names))

SelfAfterToDict_PopsSelf(self, h) ==
    [self EXCEPT !.attrs = AttrsReset(self.cls, @, <<N_parameter_in, N_content_type, N_key_in>>)]

\* The instance after self.to_dict(): no to_dict assigns to self or changes a
\* container of self (each works on the dict the comprehension has built).
SelfAfterToDict(self, h) == self

-----------------------------------------------------------------------------
(* SpecNode: a node of any class is constructed from keyword arguments and *)
(* then flattened, several times.                                          *)

MaxCalls == 2       \* to_dict() calls on the node

Strs(S) == {PyStr(x) : x \in S}

\* The values tried for each keyword argument. The fields _server and
\* _request_body of a link and _links of a response are keyword arguments
\* under these private names; they stand here under the names of their
\* properties, as the attributes do.
KwDomain(cls, name) ==
    CASE cls = "ParameterObject" ->
            (CASE name = N_name -> Strs({"id"})
               [] name = N_schema -> {Omitted, PyStr("S")}
               [] name = N_parameter_in -> {Omitted} \cup Strs({"query", "body"})
               [] name = N_description -> {Omitted} \cup Strs({"", "x"})
               [] name = N_required -> {Omitted, PyBool(FALSE), PyBool(TRUE)}
               [] name = N_deprecated -> {Omitted, PyBool(TRUE)}
               [] OTHER -> {Omitted})
      [] cls = "ContentObject" ->
            (CASE name = N_schema -> {Omitted, PyStr("W"), PyType("Widget"), PyNone}
               [] name = N_example -> {Omitted, SomeDict}
               [] name = N_content_type -> {Omitted} \cup Strs({"text/plain", "bogus/x"})
               [] OTHER -> {Omitted})
      [] cls = "ServerVariableObject" ->
            (CASE name = N_default -> Strs({"", "8443"})
               [] name = N_description -> {Omitted, PyStr("x")}
               [] name = N_enum -> {Omitted, SomeList})
      [] cls = "ServerObject" ->
            (CASE name = N_url -> Strs({"u"})
               [] name = N_description -> {Omitted, PyStr("x"), PyInt(0)}
               [] OTHER -> {Omitted})
      [] cls = "RequestBodyObject" ->
            (CASE name = N_description -> {Omitted, PyStr("x")}
               [] name = N_required -> {Omitted, PyBool(TRUE)}
               [] OTHER -> {Omitted})
      [] cls = "LinkObject" ->
            (CASE name \in {N_operation_id, N_description} -> {Omitted, PyStr("x")}
               [] name \in {N_server, N_request_body} -> {Omitted, SomeDict}
               [] OTHER -> {Omitted})
      [] cls = "ResponseObject" ->
            (CASE name = N_status_code -> {PyInt(200), PyInt(99), PyInt(0)}
               [] name = N_description -> {Omitted, PyStr("X")}
               [] name \in {N_tags, N_links} -> {Omitted, SomeList}
               [] OTHER -> {Omitted})
      [] cls = "OAuthFlowObject" ->
            (CASE name = N_scopes -> {EmptyDict, SomeDict}
               [] name = N_authorization_url -> {Omitted, PyStr("u")}
               [] name = N_token_url -> {Omitted, PyStr("t")}
               [] OTHER -> {Omitted})
      [] cls = "OAuthFlowsObject" ->
            (CASE name = N_authorization_code -> {Omitted, FlowBoth, FlowAuthOnly}
               [] name = N_implicit -> {Omitted, FlowAuthOnly, FlowTokenOnly}
               [] name = N_client_credentials -> {Omitted, FlowTokenOnly}
               [] OTHER -> {Omitted})
      [] cls = "SecuritySchemeObject" ->
            (CASE name = N_type ->
                    Strs({"apiKey", "http", "oauth2", "openIdConnect", "basic"})
               [] name = N_name -> {Omitted, PyStr("token")}
               [] name = N_key_in -> {Omitted} \cup Strs({"header", "body"})
               [] name = N_scheme -> {Omitted, PyStr("bearer")}
               [] name = N_flows -> {Omitted, SomeDict}
               [] name = N_open_id_connect_url -> {Omitted, PyStr("u")}
               [] OTHER -> {Omitted})
      [] cls = "OperationObject" ->
            (CASE name = N_description -> Strs({"op", ""})
               [] name = N_summary -> {Omitted, PyStr("s")}
               [] name = N_tags -> {Omitted, SomeList}
               [] name = N_deprecated -> {Omitted, PyBool(TRUE)}
               [] OTHER -> {Omitted})

\* Every choice of keyword arguments for the names, as a dict.
RECURSIVE KwChoices(_, _)
KwChoices(cls, names) ==
    IF names = <<>> THEN {<<>>}
    ELSE {<<<<Head(names), v>>>> \o rest :
            v \in KwDomain(cls, Head(names)), rest \in KwChoices(cls, Tail(names))}

\* cls(**kw)
Construct(cls, kw) ==
    LET made == InitAttrs(cls, PublicAttrs(cls), kw, heap)
        raised == PostInitError(cls, made.attrs, made.heap)
    IN /\ last.op = "init"
       /\ err' = raised
       /\ IF raised = ""
          THEN /\ node' = [cls |-> cls, attrs |-> PostInit(cls, made.attrs, made.heap)]
               /\ heap' = made.heap
          ELSE /\ node' = NoNode
               /\ heap' = heap
       /\ last' = [op |-> "construct", args |-> <<cls, kw>>, n |-> 0]
       /\ UNCHANGED <<pool, responses, out, alias_map>>

\* node.to_dict()
ToDictCall ==
    /\ node # NoNode
    /\ last.n < MaxCalls
    /\ out' = ToDict(node, heap)
    /\ node' = SelfAfterToDict(node, heap)
    /\ last' = [last EXCEPT !.op = "to_dict", !.n = @ + 1]
    /\ UNCHANGED <<heap, pool, responses, err, alias_map>>

InitNode ==
    /\ heap = CallerHeap
    /\ pool = <<>>
    /\ responses = <<>>
    /\ node = NoNode
    /\ err = ""
    /\ out = <<>>
    /\ last = [op |-> "init", args |-> <<>>, n |-> 0]
    /\ alias_map = NoAliasMaps

NextNode ==
    \/ \E cls \in Classes : \E kw \in KwChoices(cls, PublicAttrs(cls)) : Construct(cls, kw)
    \/ ToDictCall

SpecNode == InitNode /\ [][NextNode]_vars

-----------------------------------------------------------------------------
(* SpecDefaults: one ResponseObject.get_defaults(status_list) call *)

MaxStatusList == 4  \* length of status_list

\* the integers tried in status_list: HTTP statuses and integers that are none
DefaultsCodes == {99, 200, 400, 404, 1000}

\* (mutant) the loop runs over status_list instead of HTTPStatus.
RECURSIVE DefaultsFrom_InputOrder(_, _, _)
DefaultsFrom_InputOrder(i, status_list, a) ==
    IF i > Len(status_list) THEN <<>>
    ELSE IF IsHTTPStatus(status_list[i])
    THEN <<NewResponseObject(status_list[i], PyStr(Phrase(status_list[i])), a)>>
            \o DefaultsFrom_InputOrder(i + 1, status_list, a + 4)
    ELSE DefaultsFrom_InputOrder(i + 1, status_list, a)

\* The loop of get_defaults from the i-th member of HTTPStatus on: a response
\* for each member whose value is in status_list, containers from address a+1.
RECURSIVE DefaultsFrom(_, _, _)
DefaultsFrom(i, status_list, a) ==
    IF i > Len(HTTPStatus) THEN <<>>
    ELSE IF \E j \in 1..Len(status_list) : status_list[j] = HTTPStatus[i][1]
    THEN <<NewResponseObject(HTTPStatus[i][1], PyStr(HTTPStatus[i][2]), a)>>
            \o DefaultsFrom(i + 1, status_list, a + 4)
    ELSE DefaultsFrom(i + 1, status_list, a)

\* ResponseObject.get_defaults(status_list), for a list of int
get_defaults(status_list, a) == DefaultsFrom(1, status_list, a)

\* The call; the list returned is kept in pool.
GetDefaults(status_list) ==
    /\ last.op = "init"
    /\ pool' = get_defaults(status_list, Len(heap))
    /\ heap' = heap \o [a \in 1..(4 * Len(pool')) |-> <<>>]
    /\ last' = [op |-> "get_defaults", args |-> status_list, n |-> 0]
    /\ UNCHANGED <<responses, node, err, out, alias_map>>

InitDefaults ==
    /\ heap = <<>>
    /\ pool = <<>>
    /\ responses = <<>>
    /\ node = NoNode
    /\ err = ""
    /\ out = <<>>
    /\ last = [op |-> "init", args |-> <<>>, n |-> 0]
    /\ alias_map = NoAliasMaps

NextDefaults == \E status_list \in SeqsUpTo(DefaultsCodes, MaxStatusList) : GetDefaults(status_list)

SpecDefaults == InitDefaults /\ [][NextDefaults]_vars

-----------------------------------------------------------------------------
(* fields.py: validate, the descriptors and OAPIObjectList                 *)

\* The names __init__ takes as keyword arguments: the dataclass fields with
\* init=True that carry a public name (a property is no keyword argument).
InitFields(cls) ==
    CASE cls = "ServerObject" -> {N_url, N_description}
      [] cls = "RequestBodyObject" -> {N_description, N_required}
      [] cls = "LinkObject" -> {N_operation_id, N_operation_ref, N_description}
      [] cls = "ResponseObject" -> {N_status_code, N_description, N_tags}
      [] cls = "OAuthFlowObject" ->
            {N_scopes, N_authorization_url, N_refresh_url, N_token_url}
      [] cls = "OAuthFlowsObject" ->
            {N_authorization_code, N_client_credentials, N_implicit, N_password}
      [] cls = "SecuritySchemeObject" ->
            {N_type, N_description, N_bearer_format, N_scheme, N_open_id_connect_url,
             N_name, N_flows, N_key_in}
      [] cls = "OperationObject" ->
            {N_description, N_summary, N_tags, N_security, N_deprecated}
      [] OTHER -> {PublicAttrs(cls)[i] : i \in 1..Len(PublicAttrs(cls))}

\* cls(**kw) for a dict kw: the exception raised ("" when none), the new
\* instance and the heap with its fresh containers.
NewObject(cls, kw, h) ==
    IF \E key \in DictKeys(kw) : key \notin InitFields(cls)
    THEN [err |-> "TypeError", node |-> NoNode, heap |-> h]
    ELSE With(InitAttrs(cls, PublicAttrs(cls), kw, h), LAMBDA made :
         With(PostInitError(cls, made.attrs, made.heap), LAMBDA raised :
            IF raised = ""
            THEN [err |-> "",
                  node |-> [cls |-> cls, attrs |-> PostInit(cls, made.attrs, made.heap)],
                  heap |-> made.heap]
            ELSE [err |-> raised, node |-> NoNode, heap |-> h]))

\* The loop over expected_type._alias_map.items() for the items not yet
\* visited: value.pop(k, None) always removes k; the walrus test keeps the
\* popped value only when it is truthy.
RECURSIVE AliasLoop(_, _, _)
AliasLoop(value, items, h) ==
    IF items = <<>> THEN value
    ELSE LET k == Head(items)[1]
             alias_val == DictGetOrNone(value, k)
             popped == DictPop(value, k)
         IN AliasLoop(IF Truthy(alias_val, h)
                      THEN DictSet(popped, Head(items)[2], alias_val)
                      ELSE popped,
                      Tail(items), h)

\* (mutant) an instance of expected_type is returned as it is.
validate_ReturnsInstance(value, expected_type, p, h, am) ==
    IF value.k = "ref"
    THEN IF am[expected_type] = PyNone
         THEN [err |-> "AttributeError", ret |-> PyNone, heap |-> h]
         ELSE With(AliasLoop(h[value.n], am[expected_type].d, h), LAMBDA renamed :
              With([h EXCEPT ![value.n] = renamed], LAMBDA h1 :
              With(NewObject(expected_type, renamed, h1), LAMBDA made :
                 IF made.err # ""
                 THEN [err |-> made.err, ret |-> PyNone, heap |-> h1]
                 ELSE [err |-> "", ret |-> PyMap(ToDict(made.node, made.heap)),
                       heap |-> made.heap])))
    ELSE IF value.k = "attr" THEN [err |-> "", ret |-> value, heap |-> h]
    ELSE IF ~(value.k = "obj" /\ value.s = expected_type)
    THEN [err |-> "TypeError", ret |-> PyNone, heap |-> h]
    ELSE [err |-> "", ret |-> value, heap |-> h]

\* validate(value, expected_type) with the instances p, the heap h and the
\* alias maps am of the classes: the exception raised ("" when none), the
\* value returned and the heap afterwards. A dict is a reference to a
\* container of the caller, renamed in place before the construction.
validate(value, expected_type, p, h, am) ==
    IF value.k = "ref"
    THEN IF am[expected_type] = PyNone
         THEN [err |-> "AttributeError", ret |-> PyNone, heap |-> h]
         ELSE With(AliasLoop(h[value.n], am[expected_type].d, h), LAMBDA renamed :
              With([h EXCEPT ![value.n] = renamed], LAMBDA h1 :
              With(NewObject(expected_type, renamed, h1), LAMBDA made :
                 IF made.err # ""
                 THEN [err |-> made.err, ret |-> PyNone, heap |-> h1]
                 ELSE [err |-> "", ret |-> PyMap(ToDict(made.node, made.heap)),
                       heap |-> made.heap])))
    ELSE IF value.k = "attr" THEN [err |-> "", ret |-> value, heap |-> h]
    ELSE IF ~(value.k = "obj" /\ value.s = expected_type)
    THEN [err |-> "TypeError", ret |-> PyNone, heap |-> h]
    ELSE [err |-> "", ret |-> PyMap(ToDict(p[value.n], h)), heap |-> h]

\* validate(v, object_type) for the value v of each item in turn, up to the
\* first that raises: the items with the values returned.
RECURSIVE ValidateAll(_, _, _, _, _)
ValidateAll(items, object_type, p, h, am) ==
    IF items = <<>> THEN [err |-> "", items |-> <<>>, heap |-> h]
    ELSE With(validate(Head(items)[2], object_type, p, h, am), LAMBDA first :
            IF first.err # "" THEN [err |-> first.err, items |-> <<>>, heap |-> first.heap]
            ELSE With(ValidateAll(Tail(items), object_type, p, first.heap, am), LAMBDA rest :
                    [err |-> rest.err,
                     items |-> <<<<Head(items)[1], first.ret>>>> \o rest.items,
                     heap |-> rest.heap]))

\* The descriptors a class declares (as the docstring of OAPIObjectAttr has
\* it: Operation.Responses = {Response.status_code: Response}).
RequestBodyAttr ==
    [name |-> N_request_body, cls |-> "OAPIObjectAttr",
     object_type |-> "RequestBodyObject", is_map |-> FALSE]
ResponsesAttr ==
    [name |-> N_responses, cls |-> "OAPIObjectAttr",
     object_type |-> "ResponseObject", is_map |-> TRUE]
ParametersAttr ==
    [name |-> N_parameters, cls |-> "OAPIObjectListAttr",
     object_type |-> "ParameterObject", is_map |-> FALSE]

\* instance.__dict__ of the instance that carries the descriptors
InstanceDict == PyRef(1)

\* OAPIObjectAttr.__set__(self, instance, value): the exception raised and
\* the heap afterwards, instance.__dict__ in it.
AttrSetResult(self, value, p, h, am) ==
    IF value.k = "attr"
    THEN [err |-> "", heap |-> [h EXCEPT ![InstanceDict.n] = DictSet(@, self.name, value)]]
    ELSE IF self.is_map
    THEN IF value.k # "ref"
         THEN [err |-> "AttributeError", heap |-> h]       \* value.items()
         ELSE With(ValidateAll(h[value.n], self.object_type, p, h, am), LAMBDA all :
                 [err |-> all.err,
                  heap |-> IF all.err # "" THEN all.heap
                           ELSE [all.heap EXCEPT ![InstanceDict.n] =
                                    DictSet(@, self.name, PyMap(all.items))]])
    ELSE With(validate(value, self.object_type, p, h, am), LAMBDA one :
            [err |-> one.err,
             heap |-> IF one.err # "" THEN one.heap
                      ELSE [one.heap EXCEPT ![InstanceDict.n] = DictSet(@, self.name, one.ret)]])

\* OAPIObjectListAttr.__set__(self, instance, value); the list stored carries
\* self.object_type from then on.
ListAttrSetResult(self, value, p, h, am) ==
    IF value.k = "attr" /\ value.s = "OAPIObjectListAttr"
    THEN [err |-> "",
          heap |-> [h EXCEPT ![InstanceDict.n] =
                      DictSet(@, self.name,
                              IF DictHas(@, self.name) THEN DictGet(@, self.name)
                              ELSE PyList(<<>>))]]
    ELSE IF value.k # "ref"
    THEN [err |-> "TypeError", heap |-> h]                 \* value is not iterable
    ELSE With(ValidateAll(h[value.n], self.object_type, p, h, am), LAMBDA all :
            [err |-> all.err,
             heap |-> IF all.err # "" THEN all.heap
                      ELSE [all.heap EXCEPT ![InstanceDict.n] =
                               DictSet(@, self.name, PyList(all.items))]])

\* instance.<name>.append(value): __get__ gives instance.__dict__ itself (a
\* dict, without append) when the attribute was never set; the list stored
\* by __set__ has its object_type and appends validate(value, object_type).
AppendResult(self, value, p, h, am) ==
    IF ~DictHas(h[InstanceDict.n], self.name)
    THEN [err |-> "AttributeError", heap |-> h]
    ELSE With(validate(value, self.object_type, p, h, am), LAMBDA one :
            [err |-> one.err,
             heap |-> IF one.err # "" THEN one.heap
                      ELSE [one.heap EXCEPT ![InstanceDict.n] =
                               DictSet(@, self.name,
                                       PyList(Append(DictGet(@, self.name).d,
                                                     <<NatToStr(Len(DictGet(@, self.name).d)),
                                                       one.ret>>)))]])

-----------------------------------------------------------------------------
(* The property setters of models.py *)

\* value.to_dict() if isinstance(value, cls) else value
FlattenIfInstance(value, cls, p, h) ==
    IF value.k = "obj" /\ value.s = cls THEN PyMap(ToDict(p[value.n], h)) ELSE value

\* [v.to_dict() if isinstance(v, cls) else v for v in values]
FlattenEach(items, cls, p, h) ==
    [i \in 1..Len(items) |-> <<items[i][1], FlattenIfInstance(items[i][2], cls, p, h)>>]

-----------------------------------------------------------------------------
(* SpecCoerce: a caller holds one instance of several classes, raw dicts   *)
(* and lists, and an instance that carries three descriptors; it calls     *)
(* validate, assigns to the descriptors and to the property setters.       *)

MaxAssign == 2      \* calls the caller makes

\* The instances the caller holds: the class and the keyword arguments of each.
CoercePoolArgs == <<
    <<"OperationObject", << <<N_description, PyStr("op")>> >> >>,
    <<"LinkObject", <<>> >>,
    <<"ResponseObject", << <<N_status_code, PyInt(200)>> >> >>,
    <<"RequestBodyObject", << <<N_description, PyStr("x")>> >> >>,
    <<"ParameterObject", << <<N_name, PyStr("id")>> >> >>,
    <<"ContentObject", << <<N_schema, PyStr("W")>> >> >>,
    <<"ServerObject", << <<N_url, PyStr("u")>> >> >> >>

\* The place in the pool of the caller's instance of cls.
IndexOf(cls) == CHOOSE i \in 1..Len(CoercePoolArgs) : CoercePoolArgs[i][1] = cls

\* The caller's instance of cls, as a value.
Instance(cls) == PyObj(cls, IndexOf(cls))

N_bogus == <<"b", "o", "g", "u", "s">>

\* The containers the caller holds.
CoerceHeap == <<
    <<>>,                                                          \* 1: instance.__dict__
    << <<N_name, PyStr("id")>>, <<N_in, PyStr("query")>> >>,       \* 2: {'name': 'id', 'in': 'query'}
    << <<N_name, PyStr("id")>>, <<N_in, PyStr("")>> >>,            \* 3: {'name': 'id', 'in': ''}
    << <<N_bogus, PyStr("v")>> >>,                                 \* 4: {'bogus': 'v'}
    << <<N_description, PyStr("x")>> >>,                           \* 5: {'description': 'x'}
    << <<<<"0">>, Instance("ParameterObject")>>,
       <<<<"1">>, PyRef(2)>> >>,                                   \* 6: [parameter, {...}]
    << <<<<"0">>, Instance("LinkObject")>>,
       <<<<"1">>, PyRef(4)>> >>,                                   \* 7: [link, {'bogus': 'v'}]
    << <<<<"2", "0", "0">>, Instance("ResponseObject")>> >> >>     \* 8: {'200': response}

AliasedIn == PyRef(2)
AliasedEmptyIn == PyRef(3)
BogusDict == PyRef(4)
DescriptionDict == PyRef(5)
ParameterList == PyRef(6)
LinkList == PyRef(7)
ResponseMap == PyRef(8)

\* The containers the default factories make for one instance: one for
\* each field with a default_factory that no keyword argument sets.
FreshCount(arg) ==
    Cardinality({i \in 1..Len(PublicAttrs(arg[1])) :
                    /\ FieldDefault(arg[1], PublicAttrs(arg[1])[i]) = Factory
                    /\ ~DictHas(arg[2], PublicAttrs(arg[1])[i])})

\* The containers made for the instances before the i-th.
RECURSIVE FreshBefore(_)
FreshBefore(i) == IF i = 1 THEN 0 ELSE FreshBefore(i - 1) + FreshCount(CoercePoolArgs[i - 1])

EmptyContainers(n) == [a \in 1..n |-> <<>>]

\* The instances, made one after the other, each with its fresh containers
\* at the next free addresses.
CoercePool ==
    [i \in 1..Len(CoercePoolArgs) |->
        NewObject(CoercePoolArgs[i][1], CoercePoolArgs[i][2],
                  CoerceHeap \o EmptyContainers(FreshBefore(i))).node]

\* The caller's containers and those of the instances.
CoercePoolHeap == CoerceHeap \o EmptyContainers(FreshBefore(Len(CoercePoolArgs) + 1))

\* The alias maps the classes may hold: none (as models.py leaves them), an
\* empty one on every class, and 'in' for parameter_in on ParameterObject.
AliasMapChoices ==
    {NoAliasMaps,
     [cls \in Classes |-> PyMap(<<>>)],
     [cls \in Classes |-> IF cls = "ParameterObject"
                            THEN PyMap(<< <<N_in, N_parameter_in>> >>)
                            ELSE PyMap(<<>>)]}

Called(op, args) == [op |-> op, args |-> args, n |-> last.n + 1]

\* validate(value, expected_type)
Validate(value, expected_type) ==
    \E got \in {validate(value, expected_type, pool, heap, alias_map)} :
       /\ last.n < MaxAssign
       /\ err' = got.err
       /\ out' = got.ret
       /\ heap' = got.heap
       /\ last' = Called("validate", <<value, expected_type>>)
       /\ UNCHANGED <<pool, responses, node, alias_map>>

\* instance.<self.name> = value, for a descriptor that is an OAPIObjectAttr
AttrSet(self, value) ==
    \E got \in {AttrSetResult(self, value, pool, heap, alias_map)} :
       /\ last.n < MaxAssign
       /\ err' = got.err
       /\ heap' = got.heap
       /\ last' = Called("attr_set", <<self.name, value>>)
       /\ UNCHANGED <<pool, responses, node, out, alias_map>>

\* instance.<self.name> = value, for a descriptor that is an OAPIObjectListAttr
ListAttrSet(self, value) ==
    \E got \in {ListAttrSetResult(self, value, pool, heap, alias_map)} :
       /\ last.n < MaxAssign
       /\ err' = got.err
       /\ heap' = got.heap
       /\ last' = Called("list_attr_set", <<self.name, value>>)
       /\ UNCHANGED <<pool, responses, node, out, alias_map>>

\* instance.<self.name>.append(value)
ListAppend(self, value) ==
    \E got \in {AppendResult(self, value, pool, heap, alias_map)} :
       /\ last.n < MaxAssign
       /\ err' = got.err
       /\ heap' = got.heap
       /\ last' = Called("append", <<self.name, value>>)
       /\ UNCHANGED <<pool, responses, node, out, alias_map>>

\* The pool once the attribute name of the caller's instance of cls is val.
PoolWith(cls, name, val) ==
    [pool EXCEPT ![IndexOf(cls)].attrs = DictSet(@, name, val)]

\* operation.request_body = request_body
OperationSetRequestBody(request_body) ==
    /\ last.n < MaxAssign
    /\ pool' = PoolWith("OperationObject", N_request_body,
                        FlattenIfInstance(request_body, "RequestBodyObject", pool, heap))
    /\ err' = ""
    /\ last' = Called("operation.request_body", <<request_body>>)
    /\ UNCHANGED <<heap, responses, node, out, alias_map>>

\* link.request_body = request_body
LinkSetRequestBody(request_body) ==
    /\ last.n < MaxAssign
    /\ pool' = PoolWith("LinkObject", N_request_body,
                        FlattenIfInstance(request_body, "RequestBodyObject", pool, heap))
    /\ err' = ""
    /\ last' = Called("link.request_body", <<request_body>>)
    /\ UNCHANGED <<heap, responses, node, out, alias_map>>

\* link.server = server
LinkSetServer(server) ==
    /\ last.n < MaxAssign
    /\ pool' = PoolWith("LinkObject", N_server,
                        FlattenIfInstance(server, "ServerObject", pool, heap))
    /\ err' = ""
    /\ last' = Called("link.server", <<server>>)
    /\ UNCHANGED <<heap, responses, node, out, alias_map>>

\* holder.parameters = parameters (ParameterMixin), parameters a list
SetParameters(holder, parameters) ==
    /\ last.n < MaxAssign
    /\ pool' = PoolWith(holder, N_parameters,
                        PyList(FlattenEach(heap[parameters.n], "ParameterObject", pool, heap)))
    /\ err' = ""
    /\ last' = Called("parameters", <<holder, parameters>>)
    /\ UNCHANGED <<heap, responses, node, out, alias_map>>

\* holder.content = val (ContentMixin)
SetContent(holder, val) ==
    /\ last.n < MaxAssign
    /\ pool' = PoolWith(holder, N_content,
                        FlattenIfInstance(val, "ContentObject", pool, heap))
    /\ err' = ""
    /\ last' = Called("content", <<holder, val>>)
    /\ UNCHANGED <<heap, responses, node, out, alias_map>>

\* response.links = links, links a list
SetLinks(links) ==
    /\ last.n < MaxAssign
    /\ pool' = PoolWith("ResponseObject", N_links,
                        PyList(FlattenEach(heap[links.n], "LinkObject", pool, heap)))
    /\ err' = ""
    /\ last' = Called("links", <<links>>)
    /\ UNCHANGED <<heap, responses, node, out, alias_map>>

InitCoerce ==
    /\ pool = CoercePool
    /\ heap = CoercePoolHeap
    /\ responses = <<>>
    /\ node = NoNode
    /\ err = ""
    /\ out = PyNone
    /\ last = [op |-> "init", args |-> <<>>, n |-> 0]
    /\ alias_map \in AliasMapChoices

NextCoerce ==
    \/ \E value \in {AliasedIn, AliasedEmptyIn, BogusDict, DescriptionDict,
                     Instance("ParameterObject"), Instance("RequestBodyObject"),
                     PyStr("x"), PyAttr("OAPIObjectAttr")},
          expected_type \in {"ParameterObject", "RequestBodyObject"} :
            Validate(value, expected_type)
    \/ \E value \in {Instance("RequestBodyObject"), DescriptionDict, BogusDict,
                     PyAttr("OAPIObjectAttr")} :
            AttrSet(RequestBodyAttr, value)
    \/ \E value \in {ResponseMap, DescriptionDict, Instance("ResponseObject"),
                     PyAttr("OAPIObjectAttr")} :
            AttrSet(ResponsesAttr, value)
    \/ \E value \in {ParameterList, LinkList, PyAttr("OAPIObjectListAttr"),
                     PyAttr("OAPIObjectAttr")} :
            ListAttrSet(ParametersAttr, value)
    \/ \E value \in {Instance("ParameterObject"), AliasedEmptyIn, BogusDict} :
            ListAppend(ParametersAttr, value)
    \/ \E request_body \in {Instance("RequestBodyObject"), DescriptionDict, BogusDict} :
            \/ OperationSetRequestBody(request_body)
            \/ LinkSetRequestBody(request_body)
    \/ \E server \in {Instance("ServerObject"), BogusDict} : LinkSetServer(server)
    \/ \E holder \in {"OperationObject", "LinkObject"},
          parameters \in {ParameterList, LinkList} :
            SetParameters(holder, parameters)
    \/ \E holder \in {"RequestBodyObject", "ResponseObject"},
          val \in {Instance("ContentObject"), BogusDict} :
            SetContent(holder, val)
    \/ \E links \in {LinkList, ParameterList} : SetLinks(links)

SpecCoerce == InitCoerce /\ [][NextCoerce]_vars

-----------------------------------------------------------------------------
(* What a reader of the operation sees *)

\* The dict with every reference replaced by the contents it points to.
RECURSIVE DerefValue(_, _)
RECURSIVE DerefDict(_, _)
DerefValue(v, h) ==
    IF v.k = "ref" THEN PyMap(DerefDict(h[v.n], h))
    ELSE IF v.k = "map" THEN PyMap(DerefDict(v.d, h))
    ELSE v

DerefDict(dct, h) == [i \in 1..Len(dct) |-> <<dct[i][1], DerefValue(dct[i][2], h)>>]

\* operation.to_dict(), read in full.
OperationOutput(current, h) == DerefDict(BaseToDict(TheOperation(current), h), h)

\* int(key) of a decimal string.
RECURSIVE StrToNat(_)
StrToNat(str) ==
    IF str = <<>> THEN 0
    ELSE 10 * StrToNat(SubSeq(str, 1, Len(str) - 1)) + (Ord(str[Len(str)]) - Ord("0"))

StrToInt(str) == IF Head(str) = "-" THEN 0 - StrToNat(Tail(str)) ELSE StrToNat(str)

KeyOfResponse(r) == IntToStr(GetAttr(r, N_status_code).n)

-----------------------------------------------------------------------------
(* Claims *)

\* C1: an upsert_responses call leaves every entry that was stored before it
\* as it was (existing wins, no key is lost), adds under its decimal string
\* every status code of the list that was no key yet (with the to_dict() of
\* a response of the list that has this code), and adds nothing else.
C1_UpsertKeepsExistingAddsNew ==
    [][last'.op = "upsert_responses" =>
        LET rs == Picked(last'.args)
        IN /\ \A key \in DictKeys(responses) :
                /\ DictHas(responses', key)
                /\ DictGet(responses', key) = DictGet(responses, key)
           /\ \A j \in 1..Len(rs) :
                ~DictHas(responses, KeyOfResponse(rs[j])) =>
                    /\ DictHas(responses', KeyOfResponse(rs[j]))
                    /\ \E m \in 1..Len(rs) :
                          /\ KeyOfResponse(rs[m]) = KeyOfResponse(rs[j])
                          /\ DictGet(responses', KeyOfResponse(rs[j]))
                                = PyMap(ResponseToDict(rs[m], heap))
           /\ DictKeys(responses') =
                DictKeys(responses) \cup {KeyOfResponse(rs[j]) : j \in 1..Len(rs)}
    ]_vars

\* C1 witness: the last call upserted one response whose key was already
\* stored with another entry, and the stored entry is still the other one.
C1_ExistingWon ==
    /\ last.op = "upsert_responses"
    /\ Len(last.args) = 1
    /\ Len(responses) >= 2
    /\ DictHas(responses, KeyOfResponse(pool[last.args[1]]))
    /\ DictGet(responses, KeyOfResponse(pool[last.args[1]]))
          # PyMap(ResponseToDict(pool[last.args[1]], heap))

\* C2 (as amended): the keys of the responses map are in ascending str order
\* of the decimal strings; two keys of the same length that hold no sign are
\* therefore in ascending numeric order.
C2_KeysAscendAsStrings ==
    /\ \A i \in 1..(Len(responses) - 1) : StrLess(responses[i][1], responses[i + 1][1])
    /\ \A i, j \in 1..Len(responses) :
          (/\ i < j
           /\ Len(responses[i][1]) = Len(responses[j][1])
           /\ Head(responses[i][1]) # "-"
           /\ Head(responses[j][1]) # "-")
          => StrToInt(responses[i][1]) < StrToInt(responses[j][1])

\* C2 witness: after an upsert the map holds keys of different lengths and
\* two keys of the same length.
C2_MixedLengthKeys ==
    /\ last.op = "upsert_responses"
    /\ \E i, j \in 1..Len(responses) : Len(responses[i][1]) # Len(responses[j][1])
    /\ \E i, j \in 1..Len(responses) :
          i # j /\ Len(responses[i][1]) = Len(responses[j][1])

\* C2 as stated: for any integer status codes the keys are in ascending
\* numeric order.
C2_KeysAscendNumerically ==
    \A i, j \in 1..Len(responses) :
        i < j => StrToInt(responses[i][1]) < StrToInt(responses[j][1])

\* C9 as stated: a later upsert_headers on a response leaves what the
\* operation stores, and what operation.to_dict() shows, unchanged.
C9_ParentUnchangedByChild ==
    [][last'.op = "upsert_headers" =>
        OperationOutput(responses', heap') = OperationOutput(responses, heap)]_vars

\* The key a public attribute has in to_dict()'s output: the camelCase of
\* its name where the class is camelback, "in" for parameter_in and key_in.
ExternalKey(cls, name) ==
    IF (cls = "ParameterObject" /\ name = N_parameter_in)
       \/ (cls = "SecuritySchemeObject" /\ name = N_key_in)
    THEN N_in
    ELSE IF IsCamelback(cls) THEN snake_to_camelback(name) ELSE name

\* The keys of a to_dict() output, at its top and one level below.
OutputKeys(dct) ==
    DictKeys(dct) \cup UNION {DictKeys(dct[i][2].d) : i \in 1..Len(dct)}

\* The public attributes of the node that are falsy.
FalsyAttrs(self, h) ==
    {self.attrs[i][1] : i \in {j \in 1..Len(self.attrs) : ~Truthy(self.attrs[j][2], h)}}

\* The value a keyword argument of the last constructor call had, None
\* when it was not passed.
KwGiven(name) ==
    IF DictHas(last.args[2], name) /\ DictGet(last.args[2], name) # Omitted
    THEN DictGet(last.args[2], name) ELSE PyNone

C5_FalsyOmittedButScopes ==
    last.op = "to_dict" =>
        /\ \A name \in FalsyAttrs(node, heap) :
              (node.cls = "OAuthFlowObject" /\ name = N_scopes)
              \/ ExternalKey(node.cls, name) \notin OutputKeys(out)
        /\ node.cls = "OAuthFlowObject" =>
              /\ DictHas(out, N_scopes)
              /\ (N_scopes \in FalsyAttrs(node, heap) => DictGet(out, N_scopes) = PyMap(<<>>))

\* C5 witness: a flattened node with a falsy attribute other than scopes and
\* a truthy one, whose key is in the output.
C5_FalsyAndTruthyFlattened ==
    /\ last.op = "to_dict"
    /\ \E name \in FalsyAttrs(node, heap) : name # N_scopes
    /\ \E i \in 1..Len(node.attrs) :
          /\ Truthy(node.attrs[i][2], heap)
          /\ ExternalKey(node.cls, node.attrs[i][1]) \in OutputKeys(out)

\* C5 as stated: no falsy public attribute of any node has its key in the
\* output of to_dict().
C5_EveryFalsyOmitted ==
    last.op = "to_dict" =>
        \A name \in FalsyAttrs(node, heap) : ExternalKey(node.cls, name) \notin OutputKeys(out)

\* The arguments of the last SecuritySchemeObject(...) call break a rule of
\* the claim.
SchemeArgsInvalid ==
    \/ ~IsStrIn(KwGiven(N_type), {"apiKey", "http", "oauth2", "openIdConnect"})
    \/ /\ KwGiven(N_type) = PyStr("apiKey")
       /\ \/ ~Truthy(KwGiven(N_name), CallerHeap)
          \/ ~IsStrIn(KwGiven(N_key_in), {"query", "header", "cookie"})
    \/ /\ KwGiven(N_type) = PyStr("http")
       /\ ~Truthy(KwGiven(N_scheme), CallerHeap)
    \/ /\ KwGiven(N_type) = PyStr("oauth2")
       /\ ~Truthy(KwGiven(N_flows), CallerHeap)

\* C6 as stated: a SecuritySchemeObject construction whose arguments break a
\* rule fails with an assertion and returns no node.
C6_InvalidSchemeRejected ==
    (/\ last.op = "construct"
     /\ last.args[1] = "SecuritySchemeObject"
     /\ SchemeArgsInvalid)
    => (err = "AssertionError" /\ node = NoNode)

StatusCodeOf(r) == GetAttr(r, N_status_code).n

\* C7: get_defaults(status_list) returns ResponseObjects whose status codes
\* are exactly the HTTP statuses that occur in status_list, each once, in
\* ascending numeric order, each described by the reason phrase of its code.
C7_DefaultsSortedUniqueRecognized ==
    last.op = "get_defaults" =>
        /\ \A i \in 1..Len(pool) : pool[i].cls = "ResponseObject"
        /\ {StatusCodeOf(pool[i]) : i \in 1..Len(pool)}
              = {last.args[j] : j \in {m \in 1..Len(last.args) : IsHTTPStatus(last.args[m])}}
        /\ \A i \in 1..(Len(pool) - 1) : StatusCodeOf(pool[i]) < StatusCodeOf(pool[i + 1])
        /\ \A i \in 1..Len(pool) :
              GetAttr(pool[i], N_description) = PyStr(Phrase(StatusCodeOf(pool[i])))

\* C7 witness: the list held an integer that is no status, a status twice,
\* and statuses in descending order; two responses came back.
C7_UnorderedListWithRepeats ==
    /\ last.op = "get_defaults"
    /\ \E j \in 1..Len(last.args) : ~IsHTTPStatus(last.args[j])
    /\ \E i, j \in 1..Len(last.args) :
          i < j /\ last.args[i] = last.args[j] /\ IsHTTPStatus(last.args[i])
    /\ \E i, j \in 1..Len(last.args) :
          i < j /\ last.args[i] > last.args[j] /\ IsHTTPStatus(last.args[i])
              /\ IsHTTPStatus(last.args[j])
    /\ Len(pool) = 2

\* A container the caller made and passed: a raw mapping (or list).
IsRawContainer(v) == v.k = "ref" /\ v.n # InstanceDict.n /\ v.n <= Len(CoerceHeap)

\* The value is a raw container, or a list or a keyed mapping with one as an
\* element.
HoldsRaw(v) ==
    \/ IsRawContainer(v)
    \/ /\ v.k \in {"list", "map"}
       /\ \E i \in 1..Len(v.d) : IsRawContainer(v.d[i][2])

\* The child-holding attributes with a property setter, by class.
ChildAttrs ==
    {<<"OperationObject", N_request_body>>, <<"OperationObject", N_parameters>>,
     <<"LinkObject", N_request_body>>, <<"LinkObject", N_server>>,
     <<"LinkObject", N_parameters>>, <<"ResponseObject", N_content>>,
     <<"ResponseObject", N_links>>, <<"RequestBodyObject", N_content>>}

\* C3 as stated: whatever was assigned, no child-holding attribute (one with
\* a property setter or one behind a descriptor) holds a mapping of the
\* caller as it was given, alone or as an element: it holds only what
\* validation or flattening returned.
C3_OnlyValidatedValuesHeld ==
    /\ \A ca \in ChildAttrs : ~HoldsRaw(GetAttr(pool[IndexOf(ca[1])], ca[2]))
    /\ \A i \in 1..Len(heap[InstanceDict.n]) : ~HoldsRaw(heap[InstanceDict.n][i][2])

\* C8 (amended): a successful validate(value, expected_type) returns value
\* itself only when value is a descriptor (an OAPIObjectAttr); otherwise it
\* returns a flattened mapping, which for an instance of expected_type is
\* the to_dict() of that instance.
C8_ReturnsDescriptorOrFlattened ==
    (last.op = "validate" /\ err = "") =>
        IF last.args[1].k = "attr" THEN out = last.args[1]
        ELSE /\ out.k = "map"
             /\ last.args[1].k = "obj" =>
                    out = PyMap(ToDict(pool[last.args[1].n], heap))

\* C8 witness: validate was given an instance of the expected type and
\* returned its flattened mapping, which is not the instance.
C8_InstanceCameBackFlattened ==
    /\ last.op = "validate"
    /\ err = ""
    /\ last.args[1].k = "obj"
    /\ last.args[1].s = last.args[2]
    /\ out.k = "map"
    /\ out # last.args[1]

\* C8 as stated: a successful validate returns a node instance, never a
\* flattened mapping, and returns value itself when value is an instance of
\* the expected type or a descriptor.
C8_ReturnsValueItselfAsNode ==
    (last.op = "validate" /\ err = "") =>
        /\ out.k \in {"obj", "attr"}
        /\ last.args[1].k \in {"obj", "attr"} => out = last.args[1]

\* C10 as stated: when validate is given a mapping and the expected type has
\* an alias table, then for every (external_key, internal_key) of the table
\* whose external_key is a key of the mapping given, with any value, the
\* mapping used for the construction has internal_key with that value and
\* has no external_key; the entries that are no alias keys are untouched.
C10_EveryPresentAliasRenamed ==
    [][(/\ last'.op = "validate"
        /\ last'.args[1].k = "ref"
        /\ alias_map[last'.args[2]] # PyNone) =>
        LET given == heap[last'.args[1].n]
            used == heap'[last'.args[1].n]
            table == alias_map[last'.args[2]].d
        IN /\ \A j \in 1..Len(table) :
                DictHas(given, table[j][1]) =>
                    /\ DictHas(used, table[j][2])
                    /\ DictGet(used, table[j][2]) = DictGet(given, table[j][1])
                    /\ ~DictHas(used, table[j][1])
           /\ \A key \in DictKeys(given) :
                (\A j \in 1..Len(table) : key # table[j][1] /\ key # table[j][2]) =>
                    DictHas(used, key) /\ DictGet(used, key) = DictGet(given, key)
    ]_vars

\* The keys of a to_dict() output in the order the mapping holds them; of a
\* ContentObject, whose output has the content type as its only key, the keys
\* of the mapping below it.
OutputKeySeq(self, dct) ==
    LET fields == IF self.cls = "ContentObject" THEN dct[1][2].d ELSE dct
    IN [i \in 1..Len(fields) |-> fields[i][1]]

\* The public attribute of the class that an output key stands for.
AttrOfKey(cls, key) ==
    CHOOSE name \in {PublicAttrs(cls)[i] : i \in 1..Len(PublicAttrs(cls))} :
        ExternalKey(cls, name) = key

\* The place of a public attribute among those its class declares.
DeclaredAt(cls, name) ==
    CHOOSE i \in 1..Len(PublicAttrs(cls)) : PublicAttrs(cls)[i] = name

\* An output key that a to_dict of the node's class puts into the mapping
\* after the enumeration: "in", and scopes where the attribute is falsy.
AddedLate(self, key, h) ==
    \/ key = N_in /\ self.cls \in {"ParameterObject", "SecuritySchemeObject"}
    \/ key = N_scopes /\ self.cls = "OAuthFlowObject" /\ N_scopes \in FalsyAttrs(self, h)

HasStatusCode(v) == v.k = "obj" /\ v.s = "ResponseObject"

\* C12: when a list given to upsert_responses holds an element without a
\* status_code, the call raises and the responses map of the operation is the
\* one it had before the call: no element of the list is added, no entry is
\* lost or changed, and no container changes.
C12_FailedUpsertLeavesResponses ==
    [][(/\ last'.op = "upsert_responses"
        /\ \E j \in 1..Len(last'.args) : ~HasStatusCode(last'.args[j])) =>
        /\ err' = "AttributeError"
        /\ responses' = responses
        /\ heap' = heap
        /\ pool' = pool]_vars

\* C12 witness: a call has failed after a successful one filled the map, on
\* a list whose first element is a response with a status code the map has
\* no key for.
C12_FailedAfterKeyable ==
    /\ last.op = "upsert_responses"
    /\ err = "AttributeError"
    /\ responses # <<>>
    /\ Len(last.args) >= 2
    /\ HasStatusCode(last.args[1])
    /\ ~DictHas(responses, IntToStr(GetAttr(pool[last.args[1].n], N_status_code).n))

====
